---- MODULE Spec2Model ----
(***************************************************************************)
(* Model of elyx_visualization/app.py: a Streamlit page script that loads  *)
(* a message log and an event log, computes engagement metrics, renders    *)
(* the events as a timeline of buttons and shows, for the selected event,  *)
(* the messages it references in chronological order.                      *)
(*                                                                         *)
(* The page script is run from top to bottom on every interaction; pc is   *)
(* the position of the current run.  Values that Python raises instead of  *)
(* returning are modelled by a status field.                               *)
(***************************************************************************)
EXTENDS Integers, Sequences, FiniteSets, TLC

VARIABLES
    files,               \* contents of data/conversations.json and data/events.json
    cache,               \* st.cache_data entry of load_data
    pc,                  \* position of the current script run
    conversations_data,  \* first value returned by load_data
    events_data,         \* second value returned by load_data
    errors,              \* st.error boxes on the page
    metrics,             \* result of calculate_metrics
    selected_event_id,   \* st.session_state.selected_event_id
    clicked,             \* the st.button trigger of the click being served
    last_clicked,        \* the event whose button the viewer clicked last
    events_sorted,       \* the timeline order
    panel,               \* the detail panel of the page
    exception            \* the uncaught exception that ended the run

vars == <<files, cache, pc, conversations_data, events_data, errors, metrics,
          selected_event_id, clicked, last_clicked, events_sorted, panel, exception>>

-----------------------------------------------------------------------------
(* Bounds of the model. *)

MaxMsgs == 4
MaxEvents == 3
MaxSessionMsgs == 2
MaxSessionEvents == 2

-----------------------------------------------------------------------------
(* Python values. *)

\* An identifier held by the page: absent from the session state, None, or
\* the event_id of an event.
Unset == [tag |-> "unset", id |-> 0]
None == [tag |-> "None", id |-> 0]
Id(i) == [tag |-> "id", id |-> i]

\* A value returned by load_data: None or a list.
PyNone == [none |-> TRUE, list |-> <<>>]
PyList(s) == [none |-> FALSE, list |-> s]

\* A message_id that no message of any collection carries: message ids are
\* the positions 1..MaxMsgs.
AbsentId == MaxMsgs + 1

-----------------------------------------------------------------------------
(* Sorting: list.sort / sorted with a key compute the key of every element *)
(* and sort the rows <<key, item>> by key, stably; for lists this short    *)
(* CPython's sort is a binary insertion sort.                              *)

RECURSIVE InsertRowBeforeEqual(_, _)
\* Variant of InsertRow: the row goes before the rows of the same key.
InsertRowBeforeEqual(x, s) ==
    IF s = <<>> THEN <<x>>
    ELSE IF x.key <= Head(s).key THEN <<x>> \o s
    ELSE <<Head(s)>> \o InsertRowBeforeEqual(x, Tail(s))

RECURSIVE InsertRow(_, _)
\* A sorted sequence of rows with one more row, put after the rows whose
\* key is not greater.
InsertRow(x, s) ==
    IF s = <<>> THEN <<x>>
    ELSE IF x.key < Head(s).key THEN <<x>> \o s
    ELSE <<Head(s)>> \o InsertRow(x, Tail(s))

RECURSIVE SortRows(_)
SortRows(rows) ==
    IF rows = <<>> THEN <<>>
    ELSE InsertRow(rows[Len(rows)], SortRows(SubSeq(rows, 1, Len(rows) - 1)))

\* sorted(s, key=...), keys[i] being the key of s[i]
SortedByKey(s, keys) ==
    LET rows == SortRows([i \in 1..Len(s) |-> [key |-> keys[i], item |-> s[i]]])
    IN  [i \in 1..Len(rows) |-> rows[i].item]

-----------------------------------------------------------------------------
(* Timestamps of messages: pd.to_datetime.                                 *)

BadTimestamp == "not-a-date"

\* pd.to_datetime of one string: the fields of the Timestamp, or a failure
\* (pandas raises a ValueError for a string it cannot parse).
to_datetime(s) ==
    CASE s = "2023-12-31 23:30" -> [ok |-> TRUE, t |-> <<2023, 12, 31, 23, 30>>]
      [] s = "2024-01-05 09:00" -> [ok |-> TRUE, t |-> <<2024, 1, 5, 9, 0>>]
      [] s = "2024-01-05 09:05" -> [ok |-> TRUE, t |-> <<2024, 1, 5, 9, 5>>]
      [] s = "2024-02-01 08:00" -> [ok |-> TRUE, t |-> <<2024, 2, 1, 8, 0>>]
      [] OTHER -> [ok |-> FALSE, t |-> <<>>]

\* The place of a Timestamp in time, in minutes.
TimestampMinutes(t) == (((t[1] * 12 + t[2]) * 31 + t[3]) * 24 + t[4]) * 60 + t[5]

\* Timestamp.__lt__
TimestampLess(a, b) == TimestampMinutes(a) < TimestampMinutes(b)

\* Series.dt.to_period('M').astype(str): the year and month, "YYYY-MM".
to_period_M(t) == <<t[1], t[2]>>

\* The place of a month in time.
PeriodOrdinal(p) == p[1] * 12 + p[2]

-----------------------------------------------------------------------------
(* Dates of events: datetime.strptime(date, '%Y-%m-%d').                   *)

\* The three '-'-separated numbers of the text, if it has that shape.
DateFields(s) ==
    CASE s = "2023-12-31" -> <<2023, 12, 31>>
      [] s = "2024-01-05" -> <<2024, 1, 5>>
      [] s = "2024-1-5"   -> <<2024, 1, 5>>
      [] s = "2024-02-29" -> <<2024, 2, 29>>
      [] s = "2023-02-29" -> <<2023, 2, 29>>
      [] s = "2024-13-40" -> <<2024, 13, 40>>
      [] OTHER -> <<>>

IsLeap(y) == (y % 4 = 0 /\ y % 100 # 0) \/ y % 400 = 0

DaysInMonth(y, m) ==
    IF m = 2 THEN (IF IsLeap(y) THEN 29 ELSE 28)
    ELSE IF m \in {4, 6, 9, 11} THEN 30 ELSE 31

\* Variant of strptime: the numbers are taken as they are.
strptime_unchecked(s) ==
    LET f == DateFields(s)
    IN  IF f = <<>> THEN [ok |-> FALSE, d |-> <<>>] ELSE [ok |-> TRUE, d |-> f]

\* strptime: a datetime, or ValueError when the text does not match the
\* format or names no day of the calendar.
strptime(s) ==
    LET f == DateFields(s)
    IN  IF f = <<>> THEN [ok |-> FALSE, d |-> <<>>]
        ELSE IF f[2] < 1 \/ f[2] > 12 THEN [ok |-> FALSE, d |-> <<>>]
        ELSE IF f[3] < 1 \/ f[3] > DaysInMonth(f[1], f[2]) THEN [ok |-> FALSE, d |-> <<>>]
        ELSE [ok |-> TRUE, d |-> f]

\* Variant of DateOrdinal: the year is left out.
DateOrdinalNoYear(d) == d[2] * 31 + d[3]

\* The place of a date in time.
DateOrdinal(d) == (d[1] * 12 + d[2]) * 31 + d[3]

\* datetime.__lt__, by year, month and day
DateLess(a, b) ==
    \/ a[1] < b[1]
    \/ a[1] = b[1] /\ a[2] < b[2]
    \/ a[1] = b[1] /\ a[2] = b[2] /\ a[3] < b[3]

-----------------------------------------------------------------------------
(* calculate_metrics                                                       *)

IsMember(msg) == msg.sender_role = "member"

\* Variant of IsTeam: only the role "coach" counts as the team.
IsCoach(msg) == msg.sender_role = "coach"

IsTeam(msg) == msg.sender_role # "member"

RECURSIVE FirstSeen(_)
\* The distinct values of a sequence, in the order of their first occurrence.
FirstSeen(s) ==
    IF s = <<>> THEN <<>>
    ELSE LET r == FirstSeen(SubSeq(s, 1, Len(s) - 1))
             x == s[Len(s)]
         IN  IF \E i \in 1..Len(r) : r[i] = x THEN r ELSE Append(r, x)

Occurrences(x, s) == Cardinality({i \in 1..Len(s) : s[i] = x})

\* Variant of value_counts: the rows in order of first occurrence.
value_counts_unsorted(s) ==
    LET keys == FirstSeen(s)
    IN  [i \in 1..Len(keys) |-> [Expert |-> keys[i], count |-> Occurrences(keys[i], s)]]

\* Series.value_counts().reset_index(): one row per distinct value, ordered by
\* descending count.
value_counts(s) ==
    LET keys == FirstSeen(s)
        rows == [i \in 1..Len(keys) |-> [Expert |-> keys[i], count |-> Occurrences(keys[i], s)]]
    IN  SortedByKey(rows, [i \in 1..Len(rows) |-> -rows[i].count])

\* groupby('month').size().reset_index(name='count').set_index('month'):
\* one row per month, in ascending order of the month.
groupby_month_size(months) ==
    LET keys == FirstSeen(months)
        rows == [i \in 1..Len(keys) |-> [month |-> keys[i], count |-> Occurrences(keys[i], months)]]
    IN  SortedByKey(rows, [i \in 1..Len(rows) |-> PeriodOrdinal(rows[i].month)])

MetricsNone ==
    [status |-> "none", member_initiations |-> 0, team_responses |-> 0,
     messages_per_expert |-> <<>>, initiations_per_month |-> <<>>]

MetricsRaised(e) == [MetricsNone EXCEPT !.status = e]

calculate_metrics(conv_data) ==
    IF conv_data = <<>>
    THEN \* pd.DataFrame([]) has no columns: df['timestamp'] raises KeyError
         MetricsRaised("KeyError")
    ELSE IF \E i \in 1..Len(conv_data) : ~to_datetime(conv_data[i].timestamp).ok
    THEN \* pd.to_datetime(df['timestamp']) raises on an unparseable string
         MetricsRaised("ValueError")
    ELSE
      LET month(msg) == to_period_M(to_datetime(msg.timestamp).t)
          team_messages == SelectSeq(conv_data, IsTeam)
          member_df == SelectSeq(conv_data, IsMember)
      IN  [status |-> "ok",
           member_initiations |-> Len(member_df),
           team_responses |-> Len(team_messages),
           messages_per_expert |->
               value_counts([i \in 1..Len(team_messages) |-> team_messages[i].sender_name]),
           initiations_per_month |->
               IF member_df # <<>>
               THEN groupby_month_size([i \in 1..Len(member_df) |-> month(member_df[i])])
               ELSE <<>>]

-----------------------------------------------------------------------------
(* The timeline: events_sorted and the event buttons.                      *)

\* sorted(events_data, key=lambda x: datetime.strptime(x['date'], '%Y-%m-%d')):
\* the keys of all events are computed first, so one bad date raises.
order_events(events) ==
    IF \E i \in 1..Len(events) : ~strptime(events[i].date).ok
    THEN [status |-> "ValueError", list |-> <<>>]
    ELSE [status |-> "ok",
          list |-> SortedByKey(events,
                     [i \in 1..Len(events) |-> DateOrdinal(strptime(events[i].date).d)])]

\* Variant of RenderButtons: any click stores the first button's event.
RenderButtonsFirst(selected, evs, click) ==
    IF click.tag = "id" /\ evs # <<>> THEN Id(Head(evs).event_id) ELSE selected

RECURSIVE RenderButtons(_, _, _)
\* The loop over events_sorted: the button of the clicked event returns True
\* and its event_id is stored in the session state.
RenderButtons(selected, evs, click) ==
    IF evs = <<>> THEN selected
    ELSE RenderButtons(IF click = Id(Head(evs).event_id) THEN Id(Head(evs).event_id)
                       ELSE selected,
                       Tail(evs), click)

-----------------------------------------------------------------------------
(* The detail panel: the selected event and its source messages.           *)

\* Python's truth value of the stored identifier.
Truthy(x) == x.tag = "id" /\ x.id # 0

\* next((event for event in events_data if event["event_id"] == id), None)
selected_event(events, x) ==
    LET hits == SelectSeq(events, LAMBDA e : e.event_id = x.id)
    IN  IF hits = <<>> THEN <<>> ELSE <<Head(hits)>>

\* The sort key of a message: pd.to_datetime(x.get('timestamp'))
TimestampKey(msg) == TimestampMinutes(to_datetime(msg.timestamp).t)

\* Variant of source_messages: no filter on the message_id.
source_messages_unfiltered(event, conv) ==
    IF \E i \in 1..Len(conv) : ~to_datetime(conv[i].timestamp).ok
    THEN [status |-> "ValueError", list |-> <<>>]
    ELSE [status |-> "ok",
          list |-> SortedByKey(conv, [i \in 1..Len(conv) |-> TimestampKey(conv[i])])]

\* The messages of conv whose message_id is in the event's source_message_ids,
\* sorted by timestamp when there are any.
source_messages(event, conv) ==
    LET found == SelectSeq(conv, LAMBDA msg : msg.message_id \in event.source_message_ids)
    IN  IF found = <<>> THEN [status |-> "ok", list |-> <<>>]
        ELSE IF \E i \in 1..Len(found) : ~to_datetime(found[i].timestamp).ok
        THEN [status |-> "ValueError", list |-> <<>>]
        ELSE [status |-> "ok",
              list |-> SortedByKey(found, [i \in 1..Len(found) |-> TimestampKey(found[i])])]

PanelNone == [kind |-> "none", event_id |-> 0, messages |-> <<>>]
PanelHint == [kind |-> "hint", event_id |-> 0, messages |-> <<>>]
PanelBlank == [kind |-> "blank", event_id |-> 0, messages |-> <<>>]
PanelEvent(e, msgs) == [kind |-> "event", event_id |-> e.event_id, messages |-> msgs]

-----------------------------------------------------------------------------
(* load_data and the guard after it.                                       *)

FileNotFound == [state |-> "missing", conversations |-> <<>>, events |-> <<>>]
FileInvalid == [state |-> "invalid", conversations |-> <<>>, events |-> <<>>]
FileOk(c, e) == [state |-> "ok", conversations |-> c, events |-> e]

CacheEmpty == [set |-> FALSE, conversations |-> PyNone, events |-> PyNone, errors |-> {}]

\* The body of load_data: what it returns and the st.error boxes it shows.
load_data(f) ==
    IF f.state = "ok"
    THEN [set |-> TRUE, conversations |-> PyList(f.conversations),
          events |-> PyList(f.events), errors |-> {}]
    ELSE IF f.state = "missing"
    THEN [set |-> TRUE, conversations |-> PyNone, events |-> PyNone,
          errors |-> {"ERROR: A data file was not found."}]
    ELSE [set |-> TRUE, conversations |-> PyNone, events |-> PyNone,
          errors |-> {"ERROR: A JSON file is formatted incorrectly."}]

\* not x, for None or a list
Falsy(x) == x.none \/ x.list = <<>>

\* Variant of ShouldStop: a comparison with the empty list.
ShouldStopOnEmptyList(conv, events) ==
    (~conv.none /\ conv.list = <<>>) \/ (~events.none /\ events.list = <<>>)

\* if not conversations_data or not events_data: st.stop()
ShouldStop(conv, events) == Falsy(conv) \/ Falsy(events)

-----------------------------------------------------------------------------
(* The data the model draws its inputs from.  A message's message_id and   *)
(* an event's event_id are their positions in the file, so identifiers are *)
(* unique within a collection.                                             *)

Sender(role, name) == [role |-> role, name |-> name]

Message(i, ts, sender) ==
    [message_id |-> i, timestamp |-> ts,
     sender_role |-> sender.role, sender_name |-> sender.name]

Event(i, date, ids) == [event_id |-> i, date |-> date, source_message_ids |-> ids]

\* The message collection of a sequence of <<timestamp, sender>> pairs.
Messages(f) == [i \in 1..Len(f) |-> Message(i, f[i][1], f[i][2])]

\* The event collection of a sequence of <<date, source_message_ids>> pairs.
EventsOf(f) == [i \in 1..Len(f) |-> Event(i, f[i][1], f[i][2])]

\* The sequences of at most n elements of S.
SeqUpTo(n, S) == UNION {[1..k -> S] : k \in 0..n}

MetricsInputs ==
    SeqUpTo(MaxMsgs,
            {"2024-01-05 09:00", "2024-02-01 08:00", BadTimestamp}
            \X {Sender("member", "Rohan"), Sender("member", "Ann"),
                Sender("coach", "Ann"), Sender("doctor", "Ben")})

ResolveMessages ==
    SeqUpTo(MaxMsgs,
            {"2023-12-31 23:30", "2024-01-05 09:00", "2024-02-01 08:00", BadTimestamp}
            \X {Sender("coach", "Ann")})

ResolveIds == SUBSET ((1..MaxMsgs) \cup {AbsentId})

OrderInputs ==
    SeqUpTo(MaxEvents,
            {"2023-12-31", "2024-01-05", "2024-1-5", "2024-02-29",
             "2023-02-29", "2024-13-40"}
            \X {{}})

SessionMessages ==
    SeqUpTo(MaxSessionMsgs,
            {"2024-01-05 09:00", BadTimestamp}
            \X {Sender("member", "Rohan"), Sender("coach", "Ann")})

SessionEvents ==
    SeqUpTo(MaxSessionEvents,
            {"2023-12-31", "2024-01-05", "2024-13-40"} \X {{1, AbsentId}})

-----------------------------------------------------------------------------
(* The page script, one action per stage of a run.                         *)

\* The values a script run starts from: nothing computed, nothing on the page.
RunStarts ==
    /\ conversations_data' = PyNone
    /\ events_data' = PyNone
    /\ errors' = {}
    /\ metrics' = MetricsNone
    /\ events_sorted' = <<>>
    /\ panel' = PanelNone
    /\ exception' = "none"

\* conversations_data, events_data = load_data(), through st.cache_data: the
\* body runs on the first call, later calls replay the cached result.
LoadData ==
    /\ pc = "load"
    /\ LET r == IF cache.set THEN cache ELSE load_data(files)
       IN  /\ cache' = r
           /\ conversations_data' = r.conversations
           /\ events_data' = r.events
           /\ errors' = r.errors
    /\ pc' = "guard"
    /\ UNCHANGED <<files, metrics, selected_event_id, clicked, last_clicked,
                   events_sorted, panel, exception>>

Guard ==
    /\ pc = "guard"
    /\ pc' = IF ShouldStop(conversations_data, events_data) THEN "stopped" ELSE "metrics"
    /\ UNCHANGED <<files, cache, conversations_data, events_data, errors, metrics,
                   selected_event_id, clicked, last_clicked, events_sorted, panel,
                   exception>>

\* metrics = calculate_metrics(conversations_data)
Metrics ==
    /\ pc = "metrics"
    /\ LET m == calculate_metrics(conversations_data.list)
       IN  /\ metrics' = m
           /\ exception' = IF m.status = "ok" THEN exception ELSE m.status
           /\ pc' = IF m.status = "ok" THEN "session" ELSE "crashed"
    /\ UNCHANGED <<files, cache, conversations_data, events_data, errors,
                   selected_event_id, clicked, last_clicked, events_sorted, panel>>

\* if 'selected_event_id' not in st.session_state: ... = None
SessionState ==
    /\ pc = "session"
    /\ selected_event_id' = IF selected_event_id = Unset THEN None ELSE selected_event_id
    /\ pc' = "sort"
    /\ UNCHANGED <<files, cache, conversations_data, events_data, errors, metrics,
                   clicked, last_clicked, events_sorted, panel, exception>>

\* events_sorted = sorted(events_data, key=...)
SortEvents ==
    /\ pc = "sort"
    /\ LET r == order_events(events_data.list)
       IN  /\ events_sorted' = r.list
           /\ exception' = IF r.status = "ok" THEN exception ELSE r.status
           /\ pc' = IF r.status = "ok" THEN "buttons" ELSE "crashed"
    /\ UNCHANGED <<files, cache, conversations_data, events_data, errors, metrics,
                   selected_event_id, clicked, last_clicked, panel>>

\* for i, event in enumerate(events_sorted): ... st.button(...)
Buttons ==
    /\ pc = "buttons"
    /\ selected_event_id' = RenderButtons(selected_event_id, events_sorted, clicked)
    /\ pc' = "detail"
    /\ UNCHANGED <<files, cache, conversations_data, events_data, errors, metrics,
                   clicked, last_clicked, events_sorted, panel, exception>>

\* if st.session_state.selected_event_id: ... else: st.info(...), then the
\* metrics tab, which ends the run.
Detail ==
    /\ pc = "detail"
    /\ LET ev == IF Truthy(selected_event_id)
                 THEN selected_event(events_data.list, selected_event_id)
                 ELSE <<>>
           r == IF ev = <<>> THEN [status |-> "ok", list |-> <<>>]
                ELSE source_messages(ev[1], conversations_data.list)
       IN  /\ panel' = IF ~Truthy(selected_event_id) THEN PanelHint
                       ELSE IF ev = <<>> THEN PanelBlank
                       ELSE IF r.status = "ok" THEN PanelEvent(ev[1], r.list)
                       ELSE PanelNone
           /\ exception' = IF r.status = "ok" THEN exception ELSE r.status
           /\ pc' = IF r.status = "ok" THEN "idle" ELSE "crashed"
    /\ UNCHANGED <<files, cache, conversations_data, events_data, errors, metrics,
                   selected_event_id, clicked, last_clicked, events_sorted>>

\* The viewer clicks the button of an event on the rendered page: the script
\* is run again with that button's trigger set.
Click ==
    /\ pc = "idle"
    /\ \E i \in 1..Len(events_sorted) :
          /\ clicked' = Id(events_sorted[i].event_id)
          /\ last_clicked' = Id(events_sorted[i].event_id)
    /\ pc' = "load"
    /\ RunStarts
    /\ UNCHANGED <<files, cache, selected_event_id>>

\* The viewer reruns the page without clicking a button.
Rerun ==
    /\ pc \in {"idle", "stopped", "crashed"}
    /\ clicked' = None
    /\ pc' = "load"
    /\ RunStarts
    /\ UNCHANGED <<files, cache, selected_event_id, last_clicked>>

-----------------------------------------------------------------------------
(* Specifications.                                                         *)

Blank ==
    /\ cache = CacheEmpty
    /\ conversations_data = PyNone
    /\ events_data = PyNone
    /\ errors = {}
    /\ metrics = MetricsNone
    /\ selected_event_id = Unset
    /\ clicked = None
    /\ last_clicked = None
    /\ events_sorted = <<>>
    /\ panel = PanelNone
    /\ exception = "none"

\* A session: the first run of the script, then clicks and reruns.
Init ==
    /\ \/ files \in {FileNotFound, FileInvalid}
       \/ \E c \in SessionMessages, e \in SessionEvents :
             files = FileOk(Messages(c), EventsOf(e))
    /\ pc = "load"
    /\ Blank

Next ==
    \/ LoadData
    \/ Guard
    \/ Metrics
    \/ SessionState
    \/ SortEvents
    \/ Buttons
    \/ Detail
    \/ Click
    \/ Rerun

Spec == Init /\ [][Next]_vars

\* calculate_metrics applied to every message collection.
InitMetrics ==
    /\ files = FileNotFound
    /\ cache = CacheEmpty
    /\ \E c \in MetricsInputs : conversations_data = PyList(Messages(c))
    /\ events_data = PyNone
    /\ errors = {}
    /\ metrics = MetricsNone
    /\ selected_event_id = Unset
    /\ clicked = None
    /\ last_clicked = None
    /\ events_sorted = <<>>
    /\ panel = PanelNone
    /\ exception = "none"
    /\ pc = "metrics"

SpecMetrics == InitMetrics /\ [][Metrics]_vars

\* The timeline ordering applied to every event collection.
InitOrder ==
    /\ files = FileNotFound
    /\ cache = CacheEmpty
    /\ conversations_data = PyNone
    /\ \E e \in OrderInputs : events_data = PyList(EventsOf(e))
    /\ errors = {}
    /\ metrics = MetricsNone
    /\ selected_event_id = None
    /\ clicked = None
    /\ last_clicked = None
    /\ events_sorted = <<>>
    /\ panel = PanelNone
    /\ exception = "none"
    /\ pc = "sort"

SpecOrder == InitOrder /\ [][SortEvents]_vars

\* The run of the script that serves a click on an event, for every message
\* collection and every set of source message ids, from the point where
\* load_data has returned the two collections.
InitResolve ==
    /\ \E c \in ResolveMessages, ids \in ResolveIds :
          LET f == FileOk(Messages(c), <<Event(1, "2024-01-05", ids)>>)
          IN  /\ files = f
              /\ cache = load_data(f)
              /\ conversations_data = PyList(f.conversations)
              /\ events_data = PyList(f.events)
    /\ errors = {}
    /\ metrics = MetricsNone
    /\ selected_event_id = Unset
    /\ clicked = Id(1)
    /\ last_clicked = Id(1)
    /\ events_sorted = <<>>
    /\ panel = PanelNone
    /\ exception = "none"
    /\ pc = "guard"

NextResolve ==
    \/ Guard
    \/ Metrics
    \/ SessionState
    \/ SortEvents
    \/ Buttons
    \/ Detail

SpecResolve == InitResolve /\ [][NextResolve]_vars

-----------------------------------------------------------------------------
(* Properties of the source-message lookup, checked under SpecResolve.     *)

Conv == conversations_data.list

TheEvent == events_data.list[1]

Referenced == {i \in 1..Len(Conv) : Conv[i].message_id \in TheEvent.source_message_ids}

Shown == panel.messages

\* The lookup itself raised: the run ended after the metrics and the
\* timeline had been computed.
LookupFailed == pc = "crashed" /\ metrics.status = "ok" /\ events_sorted # <<>>

LookupDone == pc = "idle" /\ panel.kind = "event"

\* C1: the lookup returns exactly the messages of M whose message_id is in
\* the event's source_message_ids: every returned message is a referenced
\* message of M, every referenced message of M is returned (once), and ids
\* that match no message are ignored without a failure.
C1_LookupExact ==
    /\ ~LookupFailed
    /\ pc = "idle" => panel.kind = "event"
    /\ LookupDone =>
          /\ \A k \in 1..Len(Shown) : \E i \in Referenced : Shown[k] = Conv[i]
          /\ \A i \in Referenced : Cardinality({k \in 1..Len(Shown) : Shown[k] = Conv[i]}) = 1
          /\ Len(Shown) = Cardinality(Referenced)

\* The case of C1: an id without a message beside an id with one, and a
\* message of M that the event does not reference.
C1_Witness ==
    /\ LookupDone
    /\ AbsentId \in TheEvent.source_message_ids
    /\ Len(Shown) >= 1
    /\ Len(Shown) < Len(Conv)

Instant(msg) == to_datetime(msg.timestamp).t

\* C2: the output of the lookup is ascending by timestamp, messages with
\* equal timestamps keep their order in M, and the output is empty when the
\* event has no source message ids.
C2_LookupSorted ==
    LookupDone =>
        /\ \A j \in 1..Len(Shown) : \A i \in 1..(j - 1) :
              /\ ~TimestampLess(Instant(Shown[j]), Instant(Shown[i]))
              /\ Instant(Shown[i]) = Instant(Shown[j])
                    => Shown[i].message_id < Shown[j].message_id
        /\ TheEvent.source_message_ids = {} => Shown = <<>>

\* The case of C2: two shown messages with equal timestamps, and a shown
\* message that M lists after a later one.
C2_Witness ==
    /\ LookupDone
    /\ \E i, j \in 1..Len(Shown) : i < j /\ Instant(Shown[i]) = Instant(Shown[j])
    /\ \E i, j \in 1..Len(Shown) : i < j /\ Shown[i].message_id > Shown[j].message_id

-----------------------------------------------------------------------------
(* Properties of the timeline ordering, checked under SpecOrder.           *)

Events == events_data.list

\* The date texts of the inputs that name a day of the calendar: 2023 has
\* no 29 February and no year has a 13th month.
CalendarDates == {"2023-12-31", "2024-01-05", "2024-1-5", "2024-02-29"}

WellFormedDates == \A i \in 1..Len(Events) : Events[i].date \in CalendarDates

Day(e) == strptime(e.date).d

\* C3: for events with well-formed dates the timeline is a permutation of
\* the events, ascending by date, and events with the same date keep their
\* input order.
C3_OrderSortedStable ==
    (pc # "sort" /\ WellFormedDates) =>
        /\ pc = "buttons"
        /\ Len(events_sorted) = Len(Events)
        /\ \A i \in 1..Len(Events) :
              Cardinality({k \in 1..Len(events_sorted) : events_sorted[k] = Events[i]}) = 1
        /\ \A j \in 1..Len(events_sorted) : \A i \in 1..(j - 1) :
              /\ ~DateLess(Day(events_sorted[j]), Day(events_sorted[i]))
              /\ Day(events_sorted[i]) = Day(events_sorted[j])
                    => events_sorted[i].event_id < events_sorted[j].event_id

\* The case of C3: two events of the same day, and an event moved before
\* one that the input lists earlier.
C3_Witness ==
    /\ pc = "buttons"
    /\ \E i, j \in 1..Len(events_sorted) :
          i < j /\ Day(events_sorted[i]) = Day(events_sorted[j])
    /\ \E i, j \in 1..Len(events_sorted) :
          i < j /\ events_sorted[i].event_id > events_sorted[j].event_id

\* C4: when some event's date is no calendar date, the ordering fails with
\* the error strptime raises and yields no ordering.
C4_MalformedDateFails ==
    (pc # "sort" /\ ~WellFormedDates) =>
        /\ pc = "crashed"
        /\ exception = "ValueError"
        /\ events_sorted = <<>>

\* The case of C4: "2024-13-40" beside an event with a well-formed date.
C4_Witness ==
    /\ pc = "crashed"
    /\ \E i \in 1..Len(Events) : Events[i].date = "2024-13-40"
    /\ \E i \in 1..Len(Events) : Events[i].date \in CalendarDates

-----------------------------------------------------------------------------
(* Properties of calculate_metrics, checked under SpecMetrics.             *)

Members == {i \in 1..Len(Conv) : Conv[i].sender_role = "member"}

Team == {i \in 1..Len(Conv) : Conv[i].sender_role # "member"}

\* The messages whose timestamp is a date-time text.
Parseable == {i \in 1..Len(Conv) : Conv[i].timestamp # BadTimestamp}

MetricsCalled == pc # "metrics"

\* C5: a message with an unparseable timestamp does not abort the metrics:
\* it is left out of initiations_per_month only and still counted by role.
C5_BadTimestampAbsorbed ==
    (MetricsCalled /\ Parseable # 1..Len(Conv)) =>
        /\ metrics.status = "ok"
        /\ metrics.member_initiations = Cardinality(Members)
        /\ metrics.team_responses = Cardinality(Team)
        /\ \A k \in 1..Len(metrics.initiations_per_month) :
              metrics.initiations_per_month[k].count =
                  Cardinality({i \in Members \cap Parseable :
                      to_period_M(to_datetime(Conv[i].timestamp).t) =
                          metrics.initiations_per_month[k].month})

\* calculate_metrics returns for exactly the collections that are not
\* empty and whose timestamps all parse.
MetricsReturns == Conv # <<>> /\ Parseable = 1..Len(Conv)

C7_EmptyHandled ==
    (MetricsCalled /\ Conv = <<>>) =>
        metrics = [status |-> "ok", member_initiations |-> 0, team_responses |-> 0,
                   messages_per_expert |-> <<>>, initiations_per_month |-> <<>>]

PerExpert == metrics.messages_per_expert

-----------------------------------------------------------------------------
(* Properties of the session, checked under Spec.                          *)

LoadFailed == files.state # "ok"

\* C9: when loading fails, the run stops at the guard with the failure
\* shown, and no metrics, timeline order or source messages are computed.
C9_LoadFailureStops ==
    LoadFailed =>
        /\ pc \in {"load", "guard", "stopped"}
        /\ pc \in {"guard", "stopped"} => errors # {}
        /\ metrics = MetricsNone
        /\ events_sorted = <<>>
        /\ panel = PanelNone
        /\ exception = "none"

\* The case of C9: a run stopped at the guard after load_data found
\* invalid JSON and showed the error.
C9_Witness ==
    /\ files = FileInvalid
    /\ pc = "stopped"
    /\ cache.set
    /\ errors # {}

EventIds == {events_data.list[i].event_id : i \in 1..Len(events_data.list)}

SelectionInvariant ==
    /\ selected_event_id.tag \in {"unset", "None", "id"}
    /\ last_clicked = None => selected_event_id.tag # "id"
    /\ pc \in {"sort", "buttons", "detail", "idle"} => selected_event_id # Unset
    /\ pc \in {"detail", "idle"} => selected_event_id = last_clicked
    /\ (selected_event_id.tag = "id" /\ pc \notin {"load", "guard"})
          => selected_event_id.id \in EventIds
    /\ panel.kind = "event"
          => selected_event_id.tag = "id" /\ panel.event_id = selected_event_id.id

\* C10: the selection starts as None, after each served click it is the
\* event_id of the event clicked last, it is always None or the event_id of
\* a loaded event, the detail panel is shown only while it is not None, and
\* no step takes it from an event_id back to None.
C10_Selection ==
    /\ []SelectionInvariant
    /\ [][selected_event_id.tag = "id" => selected_event_id'.tag = "id"]_vars

\* The case of C10: a click on an event that is not the first of the
\* timeline was served, and a later run without a click kept the selection
\* and shows that event.
C10_Witness ==
    /\ pc = "idle"
    /\ clicked = None
    /\ selected_event_id.tag = "id"
    /\ selected_event_id = last_clicked
    /\ selected_event_id.id # events_sorted[1].event_id
    /\ panel.kind = "event"

====
